---- MODULE Spec2Model ----
(***************************************************************************)
(* Logs Dashboard API: the log store and the request handlers of           *)
(* app/routers/logs.py, with the request schemas of app/schemas/log.py and *)
(* the table of app/models/log.py.                                         *)
(*                                                                         *)
(* A text value is a run-length encoded character sequence: a sequence of  *)
(* runs [c |-> character, n |-> repetitions], so that "a" * 5000 is one    *)
(* run.  Timestamps are naive UTC instants counted in clock ticks.         *)
(***************************************************************************)
EXTENDS Integers, Sequences, FiniteSets, TLC

VARIABLES db, now, resp, issued, sessions

vars == <<db, now, resp, issued, sessions>>

(***************************************************************************)
(* Bounds of the model.                                                    *)
(***************************************************************************)
MaxLogs == 2
MaxTime == 1

(***************************************************************************)
(* Text values.                                                            *)
(***************************************************************************)
Str(cs) == [i \in 1..Len(cs) |-> [c |-> cs[i], n |-> 1]]

Rep(ch, k) == <<[c |-> ch, n |-> k]>>

Whitespace == {" "}

RECURSIVE len(_)
len(s) == IF s = <<>> THEN 0 ELSE Head(s).n + len(Tail(s))

RECURSIVE lstrip(_)
lstrip(s) ==
    IF s # <<>> /\ Head(s).c \in Whitespace THEN lstrip(Tail(s)) ELSE s

RECURSIVE rstrip(_)
rstrip(s) ==
    IF s # <<>> /\ s[Len(s)].c \in Whitespace
    THEN rstrip(SubSeq(s, 1, Len(s) - 1))
    ELSE s

strip(s) == rstrip(lstrip(s))

(***************************************************************************)
(* Optional values and the fields of a partial update.                     *)
(***************************************************************************)
None == [none |-> TRUE]

Some(x) == [none |-> FALSE, v |-> x]

Unset == [k |-> "unset"]

Null == [k |-> "null"]

Val(x) == [k |-> "val", v |-> x]

(***************************************************************************)
(* Schemas (app/schemas/log.py) and table (app/models/log.py).             *)
(***************************************************************************)
SeverityLevel == {"DEBUG", "INFO", "WARNING", "ERROR", "CRITICAL"}

MESSAGE_MAX_LENGTH == 5000

SOURCE_MAX_LENGTH == 255

FIELD_MIN_LENGTH == 1

MESSAGE_MIN_TRIMMED == 3

SOURCE_MIN_TRIMMED == 2

\* LogCreate: the request body of POST /logs as pydantic accepts it.
LogCreate(log) ==
    /\ len(log.message) >= FIELD_MIN_LENGTH
    /\ len(log.message) <= MESSAGE_MAX_LENGTH
    /\ log.severity \in SeverityLevel
    /\ len(log.source) >= FIELD_MIN_LENGTH
    /\ len(log.source) <= SOURCE_MAX_LENGTH

\* LogUpdate: the request body of PUT /logs/{id}; every field is optional
\* and may be null, a string that is present keeps the length bounds.
LogUpdate(u) ==
    /\ u.message.k = "val" =>
          /\ len(u.message.v) >= FIELD_MIN_LENGTH
          /\ len(u.message.v) <= MESSAGE_MAX_LENGTH
    /\ u.severity.k = "val" => u.severity.v \in SeverityLevel
    /\ u.source.k = "val" =>
          /\ len(u.source.v) >= FIELD_MIN_LENGTH
          /\ len(u.source.v) <= SOURCE_MAX_LENGTH

\* The id the store gives a new row: the table declares
\* id = Column(Integer, primary_key=True), which SQLite (the engine of the
\* tests and of the strftime grouping) creates as a rowid alias without
\* AUTOINCREMENT: one more than the largest id in use.
NextRowid(store) ==
    IF DOMAIN store = {} THEN 1
    ELSE (CHOOSE m \in DOMAIN store : \A i \in DOMAIN store : i <= m) + 1

(***************************************************************************)
(* Responses.                                                              *)
(***************************************************************************)
NoBody == [id |-> 0]

Response(st, dt, bd, store) ==
    [status |-> st, detail |-> dt, body |-> bd, db |-> store]

LogResponse(store, id) ==
    [id |-> id,
     message |-> store[id].message,
     severity |-> store[id].severity,
     source |-> store[id].source,
     timestamp |-> store[id].timestamp]

SchemaError(store) == Response(422, "Unprocessable Entity", NoBody, store)

NoViolation == "ok"

(***************************************************************************)
(* POST /logs                                                              *)
(***************************************************************************)
\* The validation block of create_log: the detail of the first rule the
\* input violates, in the order of the code.
create_validation(log, clock) ==
    IF log.message = <<>> \/ len(strip(log.message)) < MESSAGE_MIN_TRIMMED
    THEN "Message must be at least 3 characters"
    ELSE IF len(log.message) > MESSAGE_MAX_LENGTH
    THEN "Message must not exceed 5000 characters"
    ELSE IF log.source = <<>> \/ len(strip(log.source)) < SOURCE_MIN_TRIMMED
    THEN "Source must be at least 2 characters"
    ELSE IF len(log.source) > SOURCE_MAX_LENGTH
    THEN "Source must not exceed 255 characters"
    ELSE IF ~log.timestamp.none /\ log.timestamp.v > clock
    THEN "Timestamp cannot be in the future"
    ELSE NoViolation

\* Variant: the row keeps the trimmed message.
new_log_trimmed(log, clock) ==
    [message |-> strip(log.message),
     severity |-> log.severity,
     source |-> log.source,
     timestamp |-> IF ~log.timestamp.none THEN log.timestamp.v ELSE clock]

\* The row create_log builds from an accepted input.
new_log(log, clock) ==
    [message |-> log.message,
     severity |-> log.severity,
     source |-> log.source,
     timestamp |-> IF ~log.timestamp.none THEN log.timestamp.v ELSE clock]

create_log(store, clock, log) ==
    IF ~LogCreate(log) THEN SchemaError(store)
    ELSE IF create_validation(log, clock) # NoViolation
    THEN Response(400, create_validation(log, clock), NoBody, store)
    ELSE LET id == NextRowid(store)
             added == [i \in DOMAIN store \cup {id} |->
                          IF i = id THEN new_log(log, clock) ELSE store[i]]
         IN Response(201, "", LogResponse(added, id), added)

(***************************************************************************)
(* GET /logs/{log_id}                                                      *)
(***************************************************************************)
get_log(store, log_id) ==
    IF log_id \notin DOMAIN store
    THEN Response(404, "Log not found", NoBody, store)
    ELSE Response(200, "", LogResponse(store, log_id), store)

(***************************************************************************)
(* PUT /logs/{log_id}                                                      *)
(***************************************************************************)
UpdateFields == {"message", "severity", "source", "timestamp"}

\* model_dump(exclude_unset=True): the fields the payload sets, null or not.
update_data(u) == {f \in UpdateFields : u[f].k # "unset"}

\* Variant: the lengths are taken of the raw values, without strip().
update_validation_raw(u) ==
    IF "message" \in update_data(u) /\ u.message.k = "null"
    THEN "error"
    ELSE IF "message" \in update_data(u)
            /\ len(u.message.v) < MESSAGE_MIN_TRIMMED
    THEN "Message must be at least 3 characters"
    ELSE IF "source" \in update_data(u) /\ u.source.k = "null"
    THEN "error"
    ELSE IF "source" \in update_data(u)
            /\ len(u.source.v) < SOURCE_MIN_TRIMMED
    THEN "Source must be at least 2 characters"
    ELSE NoViolation

\* The validation block of update_log.  "error" stands for the
\* AttributeError of None.strip() on a field set to null.
update_validation(u) ==
    IF "message" \in update_data(u) /\ u.message.k = "null"
    THEN "error"
    ELSE IF "message" \in update_data(u)
            /\ len(strip(u.message.v)) < MESSAGE_MIN_TRIMMED
    THEN "Message must be at least 3 characters"
    ELSE IF "message" \in update_data(u)
            /\ len(u.message.v) > MESSAGE_MAX_LENGTH
    THEN "Message must not exceed 5000 characters"
    ELSE IF "source" \in update_data(u) /\ u.source.k = "null"
    THEN "error"
    ELSE IF "source" \in update_data(u)
            /\ len(strip(u.source.v)) < SOURCE_MIN_TRIMMED
    THEN "Source must be at least 2 characters"
    ELSE IF "source" \in update_data(u)
            /\ len(u.source.v) > SOURCE_MAX_LENGTH
    THEN "Source must not exceed 255 characters"
    ELSE NoViolation

\* Variant: the timestamp of the payload is not among the fields written.
set_fields_untimed(row, u) ==
    [f \in UpdateFields |->
        IF f \in update_data(u) /\ f # "timestamp" THEN u[f] ELSE Val(row[f])]

\* for field, value in update_data.items(): setattr(db_log, field, value)
set_fields(row, u) ==
    [f \in UpdateFields |-> IF f \in update_data(u) THEN u[f] ELSE Val(row[f])]

\* db.commit(): every column of the table is nullable=False.
commit_fails(pending) == \E f \in UpdateFields : pending[f].k = "null"

flushed(pending) == [f \in UpdateFields |-> pending[f].v]

\* Variant: each field is validated and written in turn, so that a refused
\* source leaves an accepted message behind.
update_log_fieldwise(store, log_id, u) ==
    IF ~LogUpdate(u) THEN SchemaError(store)
    ELSE IF log_id \notin DOMAIN store
    THEN Response(404, "Log not found", NoBody, store)
    ELSE IF update_validation(u) = "error"
    THEN Response(500, "Failed to update log", NoBody, store)
    ELSE IF update_validation(u) # NoViolation
    THEN Response(400, update_validation(u), NoBody,
                  IF u.message.k = "val"
                     /\ len(strip(u.message.v)) >= MESSAGE_MIN_TRIMMED
                  THEN [store EXCEPT ![log_id].message = u.message.v]
                  ELSE store)
    ELSE LET pending == set_fields(store[log_id], u)
         IN IF commit_fails(pending)
            THEN Response(500, "Failed to update log", NoBody, store)
            ELSE LET merged == [store EXCEPT ![log_id] = flushed(pending)]
                 IN Response(200, "", LogResponse(merged, log_id), merged)

update_log(store, log_id, u) ==
    IF ~LogUpdate(u) THEN SchemaError(store)
    ELSE IF log_id \notin DOMAIN store
    THEN Response(404, "Log not found", NoBody, store)
    ELSE IF update_validation(u) = "error"
    THEN Response(500, "Failed to update log", NoBody, store)
    ELSE IF update_validation(u) # NoViolation
    THEN Response(400, update_validation(u), NoBody, store)
    ELSE LET pending == set_fields(store[log_id], u)
         IN IF commit_fails(pending)
            THEN Response(500, "Failed to update log", NoBody, store)
            ELSE LET merged == [store EXCEPT ![log_id] = flushed(pending)]
                 IN Response(200, "", LogResponse(merged, log_id), merged)

(***************************************************************************)
(* DELETE /logs/{log_id}                                                   *)
(***************************************************************************)
\* Variant: the row is marked for deletion and the commit is missing.
delete_log_uncommitted(store, log_id) ==
    IF log_id \notin DOMAIN store
    THEN Response(404, "Log not found", NoBody, store)
    ELSE Response(200, "deleted successfully", NoBody, store)

delete_log(store, log_id) ==
    IF log_id \notin DOMAIN store
    THEN Response(404, "Log not found", NoBody, store)
    ELSE Response(200, "deleted successfully", NoBody,
                  [i \in DOMAIN store \ {log_id} |-> store[i]])

(***************************************************************************)
(* The filter predicate of the views.                                      *)
(***************************************************************************)
RECURSIVE chars(_)
\* The characters of a text value, one element per character.
chars(s) ==
    IF s = <<>> THEN <<>>
    ELSE [i \in 1..Head(s).n |-> Head(s).c] \o chars(Tail(s))

\* lower() of SQLite: ASCII letters only.
lower(ch) ==
    CASE ch = "A" -> "a"
      [] ch = "B" -> "b"
      [] ch = "C" -> "c"
      [] OTHER -> ch

RECURSIVE like_at(_, _, _, _)
\* LIKE without an ESCAPE clause: % matches any run of characters, _ any
\* single character, every other character itself.
like_at(p, i, t, j) ==
    IF i > Len(p) THEN j > Len(t)
    ELSE IF p[i] = "%"
    THEN \E k \in j..(Len(t) + 1) : like_at(p, i + 1, t, k)
    ELSE /\ j <= Len(t)
         /\ (p[i] = "_" \/ p[i] = t[j])
         /\ like_at(p, i + 1, t, j + 1)

\* Log.message.ilike(f"%{search}%"), rendered lower(message) LIKE lower(?).
ilike(message, search) ==
    LET p == <<"%">> \o chars(search) \o <<"%">>
        lp == [i \in 1..Len(p) |-> lower(p[i])]
        t == chars(message)
        lt == [i \in 1..Len(t) |-> lower(t[i])]
    IN like_at(lp, 1, lt, 1)

\* Python truth of an optional text parameter: None and "" are false.
truthy(opt) == ~opt.none /\ opt.v # <<>>

\* The conditions get_logs and export_logs_csv append to filters.
list_filter(row, q) ==
    /\ ~q.severity.none => row.severity = q.severity.v
    /\ truthy(q.source) => row.source = q.source.v
    /\ ~q.start_date.none => row.timestamp >= q.start_date.v
    /\ ~q.end_date.none => row.timestamp <= q.end_date.v
    /\ truthy(q.search) => ilike(row.message, q.search.v)

matching(store, q) == {i \in DOMAIN store : list_filter(store[i], q)}

(***************************************************************************)
(* Sorting.                                                                *)
(***************************************************************************)
\* The columns of the table, and the other attributes of the Log class.
Columns == {"id", "timestamp", "message", "severity", "source"}

OtherAttributes == {"to_dict", "metadata"}

\* The code points of the characters the model uses (BINARY collation).
code(ch) ==
    CASE ch = " " -> 32
      [] ch = "%" -> 37
      [] ch = "A" -> 65
      [] ch = "B" -> 66
      [] ch = "C" -> 67
      [] ch = "_" -> 95
      [] ch = "a" -> 97
      [] ch = "b" -> 98
      [] ch = "c" -> 99
      [] ch = "d" -> 100
      [] ch = "u" -> 117
      [] ch = "i" -> 105
      [] OTHER -> 127

RECURSIVE seq_less(_, _)
seq_less(a, b) ==
    IF b = <<>> THEN FALSE
    ELSE IF a = <<>> THEN TRUE
    ELSE IF code(Head(a)) # code(Head(b)) THEN code(Head(a)) < code(Head(b))
    ELSE seq_less(Tail(a), Tail(b))

text_less(a, b) == seq_less(chars(a), chars(b))

\* Enum(SeverityLevel) is stored as the member name and sorts as text.
severity_rank(sv) ==
    CASE sv = "CRITICAL" -> 1
      [] sv = "DEBUG" -> 2
      [] sv = "ERROR" -> 3
      [] sv = "INFO" -> 4
      [] sv = "WARNING" -> 5

\* getattr(Log, sort_by, Log.timestamp)
sort_field(sort_by) ==
    IF sort_by \in Columns \cup OtherAttributes THEN sort_by ELSE "timestamp"

key_less(field, store, x, y) ==
    CASE field = "id" -> x < y
      [] field = "timestamp" -> store[x].timestamp < store[y].timestamp
      [] field = "severity" ->
            severity_rank(store[x].severity) < severity_rank(store[y].severity)
      [] field = "source" -> text_less(store[x].source, store[y].source)
      [] field = "message" -> text_less(store[x].message, store[y].message)

\* ORDER BY field ASC|DESC: x sorts strictly before y.
precedes(field, ascending, store, x, y) ==
    IF ascending THEN key_less(field, store, x, y)
                 ELSE key_less(field, store, y, x)

\* x put into the sorted rows, behind every row it does not sort before.
place(rows, x, field, ascending, store) ==
    LET n == Cardinality({k \in 1..Len(rows) :
                 ~precedes(field, ascending, store, x, rows[k])})
    IN SubSeq(rows, 1, n) \o <<x>> \o SubSeq(rows, n + 1, Len(rows))

RECURSIVE sorted(_, _, _, _)
sorted(scanned, field, ascending, store) ==
    IF scanned = <<>> THEN <<>>
    ELSE place(sorted(SubSeq(scanned, 1, Len(scanned) - 1), field, ascending, store),
               scanned[Len(scanned)], field, ascending, store)

\* query.order_by(...): the rows of ids in the order of the sort key; rows of
\* equal key stay in the order in which the store scans them (scan, a
\* permutation of the stored ids).
order_by(ids, field, ascending, store, scan) ==
    sorted(SelectSeq(scan, LAMBDA x : x \in ids), field, ascending, store)

\* The orders in which the store may scan its rows.
Scans(store) ==
    {s \in [1..Cardinality(DOMAIN store) -> DOMAIN store] :
        \A a, b \in 1..Cardinality(DOMAIN store) : s[a] = s[b] => a = b}

(***************************************************************************)
(* GET /logs                                                               *)
(***************************************************************************)
PAGE_MIN == 1

PAGE_SIZE_MIN == 1

PAGE_SIZE_MAX == 1000

\* The Query(...) declarations of get_logs.
ListQuery(q) ==
    /\ q.page >= PAGE_MIN
    /\ q.page_size >= PAGE_SIZE_MIN
    /\ q.page_size <= PAGE_SIZE_MAX
    /\ q.severity.none \/ q.severity.v \in SeverityLevel

\* Variant: integer division, which rounds down.
floor_div(a, b) == a \div b

\* math.ceil(total / page_size)
ceil_div(a, b) == IF a % b = 0 THEN a \div b ELSE (a \div b) + 1

\* Variant: a page after the first starts on the last row of the page before.
offset_limit_overlap(rows, offset, limit) ==
    SubSeq(rows, IF offset = 0 THEN 1 ELSE offset,
           IF offset + limit < Len(rows) THEN offset + limit ELSE Len(rows))

\* query.offset(offset).limit(page_size).all()
offset_limit(rows, offset, limit) ==
    SubSeq(rows, offset + 1,
           IF offset + limit < Len(rows) THEN offset + limit ELSE Len(rows))

ListBody(items, total, page, page_size, total_pages) ==
    [items |-> items, total |-> total, page |-> page,
     page_size |-> page_size, total_pages |-> total_pages]

NoList == ListBody(<<>>, 0, 0, 0, 0)

\* The strings whose lower() is "asc".
Ascending == {"asc", "Asc", "aSc", "asC", "ASc", "AsC", "aSC", "ASC"}

get_logs(store, scan, q) ==
    IF ~ListQuery(q) THEN Response(422, "Unprocessable Entity", NoList, store)
    ELSE IF sort_field(q.sort_by) \in OtherAttributes
    THEN Response(500, "Failed to fetch logs", NoList, store)
    ELSE LET ids == matching(store, q)
             rows == order_by(ids, sort_field(q.sort_by),
                              q.sort_order \in Ascending, store, scan)
             total == Cardinality(ids)
             offset == (q.page - 1) * q.page_size
             items == offset_limit(rows, offset, q.page_size)
         IN Response(200, "",
                     ListBody([k \in 1..Len(items) |-> LogResponse(store, items[k])],
                              total, q.page, q.page_size,
                              ceil_div(total, q.page_size)),
                     store)

(***************************************************************************)
(* GET /logs/export/csv                                                    *)
(***************************************************************************)
CsvHeader == <<"ID", "Timestamp", "Severity", "Source", "Message">>

CsvRow(store, id) ==
    <<id, store[id].timestamp, store[id].severity, store[id].source,
      store[id].message>>

ExportQuery(q) == q.severity.none \/ q.severity.v \in SeverityLevel

\* The conditions without the one on the message.
export_filter_unsearched(row, q) ==
    /\ ~q.severity.none => row.severity = q.severity.v
    /\ truthy(q.source) => row.source = q.source.v
    /\ ~q.start_date.none => row.timestamp >= q.start_date.v
    /\ ~q.end_date.none => row.timestamp <= q.end_date.v

\* The conditions export_logs_csv applies to the query.
export_filter(row, q) ==
    /\ ~q.severity.none => row.severity = q.severity.v
    /\ truthy(q.source) => row.source = q.source.v
    /\ ~q.start_date.none => row.timestamp >= q.start_date.v
    /\ ~q.end_date.none => row.timestamp <= q.end_date.v
    /\ truthy(q.search) => ilike(row.message, q.search.v)

\* The body of the export: the header, then one row per record of the
\* filtered query ordered by timestamp descending.
export_logs_csv(store, scan, q) ==
    IF ~ExportQuery(q)
    THEN Response(422, "Unprocessable Entity", [header |-> <<>>, rows |-> <<>>], store)
    ELSE LET found == {i \in DOMAIN store : export_filter(store[i], q)}
             logs == order_by(found, "timestamp", FALSE, store, scan)
         IN Response(200, "",
                     [header |-> CsvHeader,
                      rows |-> [k \in 1..Len(logs) |-> CsvRow(store, logs[k])]],
                     store)

(***************************************************************************)
(* GET /logs/histogram                                                     *)
(***************************************************************************)
\* The members of SeverityLevel in the order of the enumeration.
SeverityOrder == <<"DEBUG", "INFO", "WARNING", "ERROR", "CRITICAL">>

\* The conditions with the upper bound on the timestamp exclusive.
histogram_filter_open(row, q) ==
    /\ ~q.start_date.none => row.timestamp >= q.start_date.v
    /\ ~q.end_date.none => row.timestamp < q.end_date.v
    /\ truthy(q.source) => row.source = q.source.v

\* The conditions get_severity_histogram appends to filters.
histogram_filter(row, q) ==
    /\ ~q.start_date.none => row.timestamp >= q.start_date.v
    /\ ~q.end_date.none => row.timestamp <= q.end_date.v
    /\ truthy(q.source) => row.source = q.source.v

\* The count of the group of one severity in the grouped query.
severity_count(store, q, sv) ==
    Cardinality({i \in DOMAIN store :
                    histogram_filter(store[i], q) /\ store[i].severity = sv})

\* The rows of the grouped query alone: a severity without a record has no
\* group.
get_severity_histogram_groups(store, q) ==
    LET all == [k \in 1..Len(SeverityOrder) |->
                   [severity |-> SeverityOrder[k],
                    count |-> severity_count(store, q, SeverityOrder[k])]]
        present(e) == e.count > 0
    IN Response(200, "",
                [histogram |-> SelectSeq(all, present), filters |-> q],
                store)

\* One entry per severity: the count of its group, 0 without a group.
get_severity_histogram(store, q) ==
    Response(200, "",
             [histogram |->
                 [k \in 1..Len(SeverityOrder) |->
                     [severity |-> SeverityOrder[k],
                      count |-> severity_count(store, q, SeverityOrder[k])]],
              filters |-> q],
             store)

(***************************************************************************)
(* GET /logs/search                                                        *)
(***************************************************************************)
SearchQuery(q) == q.severity.none \/ q.severity.v \in SeverityLevel

\* The conditions search_logs appends to filters.
search_filter(row, q) ==
    /\ ~q.severity.none => row.severity = q.severity.v
    /\ truthy(q.source) => row.source = q.source.v
    /\ ~q.start_date.none => row.timestamp >= q.start_date.v
    /\ ~q.end_date.none => row.timestamp <= q.end_date.v

\* The clock counts half days: date() keeps the day of a timestamp,
\* strftime('%Y-%m-%d %H:00:00') the day and the hour.
date(ts) == <<ts \div 2>>

strftime_hour(ts) == <<ts \div 2, 12 * (ts % 2)>>

GroupBy == {"severity", "source", "date", "hour"}

\* The expression a group_by groups on, and the column whose order the
\* groups come in.
group_key(group_by, row) ==
    CASE group_by = "severity" -> row.severity
      [] group_by = "source" -> row.source
      [] group_by = "date" -> date(row.timestamp)
      [] group_by = "hour" -> strftime_hour(row.timestamp)

group_column(group_by) ==
    CASE group_by = "severity" -> "severity"
      [] group_by = "source" -> "source"
      [] group_by = "date" -> "timestamp"
      [] group_by = "hour" -> "timestamp"

LogFiltering(group_by, key, count) ==
    [severity |-> IF group_by = "severity" THEN Some(key) ELSE None,
     source |-> IF group_by = "source" THEN Some(key) ELSE None,
     count |-> count,
     date |-> IF group_by \in {"date", "hour"} THEN Some(key) ELSE None]

\* GROUP BY over rows that come in the order of the grouping column: one
\* entry per key, with the number of rows of that key.
RECURSIVE grouped(_, _, _)
grouped(rows, group_by, store) ==
    IF rows = <<>> THEN <<>>
    ELSE LET key == group_key(group_by, store[rows[1]])
             same(x) == group_key(group_by, store[x]) = key
             other(x) == ~same(x)
         IN <<LogFiltering(group_by, key, Len(SelectSeq(rows, same)))>>
               \o grouped(SelectSeq(rows, other), group_by, store)

NoAggregation == [aggregations |-> <<>>, total_count |-> 0]

search_logs(store, scan, q) ==
    IF ~SearchQuery(q)
    THEN Response(422, "Unprocessable Entity", NoAggregation, store)
    ELSE LET found == {i \in DOMAIN store : search_filter(store[i], q)}
             aggregations ==
                 IF q.group_by \in GroupBy
                 THEN grouped(order_by(found, group_column(q.group_by), TRUE,
                                       store, scan),
                              q.group_by, store)
                 ELSE <<>>
         IN Response(200, "",
                     [aggregations |-> aggregations,
                      total_count |-> Cardinality(found)],
                     store)

(***************************************************************************)
(* The handlers with a store call that raises.  fault names the call of    *)
(* the session that fails: the query, the commit or the refresh; NoFault   *)
(* is the store that works.  A handler that returns before the failing     *)
(* call answers as it does without the fault.                              *)
(***************************************************************************)
NoFault == "none"

StoreCalls == {"query", "commit", "refresh"}

\* except Exception of create_log: rollback, then 500.
create_log_failing(store, clock, log, fault) ==
    LET r == create_log(store, clock, log)
    IN IF r.status # 201 THEN r
       ELSE IF fault = "commit"
       THEN Response(500, "Internal server error", NoBody, store)
       ELSE IF fault = "refresh"
       THEN Response(500, "Internal server error", NoBody, r.db)
       ELSE r

\* except Exception of get_log.
get_log_failing(store, log_id, fault) ==
    IF fault = "query"
    THEN Response(500, "Failed to fetch log", NoBody, store)
    ELSE get_log(store, log_id)

\* except Exception of update_log: rollback, then 500.
update_log_failing(store, log_id, u, fault) ==
    LET r == update_log(store, log_id, u)
    IN IF r.status = 422 THEN r
       ELSE IF fault = "query"
       THEN Response(500, "Failed to update log", NoBody, store)
       ELSE IF r.status # 200 THEN r
       ELSE IF fault = "commit"
       THEN Response(500, "Failed to update log", NoBody, store)
       ELSE IF fault = "refresh"
       THEN Response(500, "Failed to update log", NoBody, r.db)
       ELSE r

\* except Exception of delete_log: rollback, then 400 with the text of the
\* exception.
delete_log_failing(store, log_id, fault) ==
    LET r == delete_log(store, log_id)
    IN IF fault = "query"
       THEN Response(400, "exception", NoBody, store)
       ELSE IF r.status # 200 THEN r
       ELSE IF fault = "commit"
       THEN Response(400, "exception", NoBody, store)
       ELSE r

\* except Exception of the four views.
get_logs_failing(store, scan, q, fault) ==
    IF ListQuery(q) /\ fault = "query"
    THEN Response(500, "Failed to fetch logs", NoList, store)
    ELSE get_logs(store, scan, q)

search_logs_failing(store, scan, q, fault) ==
    IF SearchQuery(q) /\ fault = "query"
    THEN Response(500, "Failed to search logs", NoAggregation, store)
    ELSE search_logs(store, scan, q)

get_severity_histogram_failing(store, q, fault) ==
    IF fault = "query"
    THEN Response(500, "Failed to generate histogram",
                  [histogram |-> <<>>, filters |-> q], store)
    ELSE get_severity_histogram(store, q)

export_logs_csv_failing(store, scan, q, fault) ==
    IF ExportQuery(q) /\ fault = "query"
    THEN Response(500, "Failed to export CSV",
                  [header |-> <<>>, rows |-> <<>>], store)
    ELSE export_logs_csv(store, scan, q)

(***************************************************************************)
(* The store calls of update_log and delete_log as separate steps of a     *)
(* session, so that the steps of two requests can interleave.              *)
(***************************************************************************)
NoRow == [id |-> 0]

Step(pc, st, row, store) == [pc |-> pc, status |-> st, loaded |-> row, db |-> store]

\* db.query(Log).filter(Log.id == log_id).first(), the 404 and the
\* validation of the payload.
update_read(store, log_id, u) ==
    IF ~LogUpdate(u) THEN Step("done", 422, NoRow, store)
    ELSE IF log_id \notin DOMAIN store THEN Step("done", 404, NoRow, store)
    ELSE IF update_validation(u) = "error" THEN Step("done", 500, NoRow, store)
    ELSE IF update_validation(u) # NoViolation THEN Step("done", 400, NoRow, store)
    ELSE Step("loaded", 0, store[log_id], store)

\* Variant: the commit writes the whole row under its id, present or not.
update_commit_merge(store, log_id, loaded, u) ==
    LET pending == set_fields(loaded, u)
    IN IF commit_fails(pending) THEN Step("done", 500, loaded, store)
       ELSE Step("committed", 0, loaded,
                 [i \in DOMAIN store \cup {log_id} |->
                     IF i = log_id THEN flushed(pending) ELSE store[i]])

\* setattr and db.commit(): the flush issues UPDATE logs SET <the columns
\* whose value changed> WHERE id = log_id, and raises when the statement
\* matches no row; without a changed column there is no statement.
update_commit(store, log_id, loaded, u) ==
    LET pending == set_fields(loaded, u)
        changed == {f \in UpdateFields : pending[f] # Val(loaded[f])}
    IN IF commit_fails(pending) THEN Step("done", 500, loaded, store)
       ELSE IF changed = {} THEN Step("committed", 0, loaded, store)
       ELSE IF log_id \notin DOMAIN store THEN Step("done", 500, loaded, store)
       ELSE Step("committed", 0, loaded,
                 [store EXCEPT ![log_id] =
                     [f \in UpdateFields |->
                         IF f \in changed THEN pending[f].v ELSE store[log_id][f]]])

\* db.refresh(db_log): raises when the row is gone.
update_refresh(store, log_id) ==
    IF log_id \notin DOMAIN store
    THEN Response(500, "Failed to update log", NoBody, store)
    ELSE Response(200, "", LogResponse(store, log_id), store)

delete_read(store, log_id) ==
    IF log_id \notin DOMAIN store THEN Step("done", 404, NoRow, store)
    ELSE Step("loaded", 0, store[log_id], store)

\* db.delete(db_log) and db.commit(): DELETE FROM logs WHERE id = log_id.
delete_commit(store, log_id) ==
    Response(200, "deleted successfully", NoBody,
             [i \in DOMAIN store \ {log_id} |-> store[i]])

(***************************************************************************)
(* Request inputs.                                                         *)
(***************************************************************************)
ShortMessage == Str(<<" ", "a", "B", "c">>)

WildMessage == Str(<<"a", "_", "c">>)

LongMessage == Rep("a", MESSAGE_MAX_LENGTH)

ShortSource == Str(<<"d", "b">>)

OtherSource == Str(<<"u", "i">>)

LongSource == Rep("d", SOURCE_MAX_LENGTH)

Timestamps == {None} \cup {Some(t) : t \in 0..(MaxTime + 1)}

Body(m, sv, src, ts) ==
    [message |-> m, severity |-> sv, source |-> src, timestamp |-> ts]

\* Bodies of POST /logs: accepted ones, and one per way of being refused.
CrudBodies ==
    {Body(ShortMessage, "INFO", ShortSource, ts) : ts \in Timestamps}
    \cup {Body(LongMessage, "ERROR", LongSource, Some(0)),
          Body(Str(<<"a", "b">>), "INFO", ShortSource, None),
          Body(ShortMessage, "INFO", Str(<<"a">>), None),
          Body(Rep("a", MESSAGE_MAX_LENGTH + 1), "INFO", ShortSource, None),
          Body(ShortMessage, "TRACE", ShortSource, None)}

Payload(m, sv, src, ts) ==
    [message |-> m, severity |-> sv, source |-> src, timestamp |-> ts]

\* Bodies of PUT /logs/{id}.
CrudPayloads ==
    {Payload(Unset, Unset, Unset, Unset),
     Payload(Unset, Unset, Unset, Val(0)),
     Payload(Val(Str(<<"a", "b">>)), Unset, Unset, Unset),
     Payload(Val(ShortMessage), Unset, Val(Str(<<"a">>)), Unset),
     Payload(Unset, Null, Unset, Unset),
     Payload(Null, Unset, Unset, Unset),
     Payload(Val(<<>>), Unset, Unset, Unset)}

Ids == 1..(MaxLogs + 1)

\* Bodies of POST /logs that populate the store for the views.
QueryBodies ==
    {Body(ShortMessage, "INFO", ShortSource, Some(t)) : t \in 0..MaxTime}
    \cup {Body(WildMessage, "ERROR", OtherSource, None)}

Filters(sv, src, start, end, search) ==
    [severity |-> sv, source |-> src, start_date |-> start,
     end_date |-> end, search |-> search]

NoFilters == Filters(None, None, None, None, None)

ListRequest(f, page, page_size, sort_by, sort_order) ==
    [severity |-> f.severity, source |-> f.source,
     start_date |-> f.start_date, end_date |-> f.end_date,
     search |-> f.search, page |-> page, page_size |-> page_size,
     sort_by |-> sort_by, sort_order |-> sort_order]

\* Requests of GET /logs.
ListQueries ==
    {ListRequest(NoFilters, p, 1, "timestamp", "desc") : p \in 1..(MaxLogs + 1)}
    \cup {ListRequest(Filters(Some("INFO"), None, None, None, None),
                      1, MaxLogs, "source", "asc"),
          ListRequest(Filters(None, None, None, None, Some(Str(<<"_">>))),
                      1, MaxLogs, "timestamp", "desc"),
          ListRequest(Filters(None, Some(<<>>), Some(0), Some(MaxTime), None),
                      1, MaxLogs, "id", "desc"),
          ListRequest(NoFilters, 0, 1, "timestamp", "desc"),
          ListRequest(NoFilters, 1, 1, "to_dict", "desc")}

\* Requests of GET /logs/export/csv.
ExportQueries ==
    {NoFilters,
     Filters(Some("ERROR"), None, None, None, None),
     Filters(None, None, None, None, Some(Str(<<"b">>))),
     Filters(Some("TRACE"), None, None, None, None)}

HistogramFilters(start, end, src) ==
    [start_date |-> start, end_date |-> end, source |-> src]

\* Requests of GET /logs/histogram.
HistogramQueries ==
    {HistogramFilters(None, None, None),
     HistogramFilters(Some(MaxTime), None, Some(ShortSource))}

SearchRequest(sv, src, start, end, group_by) ==
    [severity |-> sv, source |-> src, start_date |-> start,
     end_date |-> end, group_by |-> group_by]

\* Requests of GET /logs/search.
SearchQueries ==
    {SearchRequest(None, None, None, None, g) : g \in GroupBy}
    \cup {SearchRequest(Some("INFO"), None, Some(0), None, "minute"),
          SearchRequest(Some("TRACE"), None, None, None, "severity")}

\* Bodies of the PUT /logs/{id} that runs beside a DELETE /logs/{id}.
RacePayloads ==
    {Payload(Unset, Unset, Unset, Unset),
     Payload(Unset, Unset, Unset, Val(0)),
     Payload(Val(Str(<<"a", "b">>)), Unset, Unset, Unset)}

(***************************************************************************)
(* The requests as steps of the service.                                   *)
(***************************************************************************)
NoRequest == [page |-> 0]

\* A request in flight: where it stands, its target and payload, the row
\* it loaded and its answer.  before is the store when the first of the
\* two requests read it.
NoSession ==
    [pc |-> "idle", id |-> 0, u |-> Payload(Unset, Unset, Unset, Unset),
     loaded |-> NoRow, status |-> 0]

NoSessions == [update |-> NoSession, delete |-> NoSession, before |-> <<>>]

Answer(op, r) ==
    [op |-> op, status |-> r.status, id |-> r.body.id, req |-> NoRequest]

Init ==
    /\ db = <<>>
    /\ now = 0
    /\ resp = [op |-> "none", status |-> 0, id |-> 0, req |-> NoRequest]
    /\ issued = {}
    /\ sessions = NoSessions

Tick ==
    /\ now < MaxTime
    /\ now' = now + 1
    /\ UNCHANGED <<db, resp, issued, sessions>>

Create(bodies, faults) ==
    \E log \in bodies, fault \in faults :
        LET r == create_log_failing(db, now, log, fault)
        IN /\ \A i \in DOMAIN r.db : i <= MaxLogs
           /\ db' = r.db
           /\ resp' = Answer("create", r)
           /\ issued' = IF r.status = 201 THEN issued \cup {r.body.id} ELSE issued
           /\ UNCHANGED <<now, sessions>>

Get(faults) ==
    \E id \in Ids, fault \in faults :
        LET r == get_log_failing(db, id, fault)
        IN /\ resp' = Answer("get", r)
           /\ UNCHANGED <<db, now, issued, sessions>>

Update(payloads, faults) ==
    \E id \in Ids, u \in payloads, fault \in faults :
        LET r == update_log_failing(db, id, u, fault)
        IN /\ db' = r.db
           /\ resp' = Answer("update", r)
           /\ UNCHANGED <<now, issued, sessions>>

Delete(faults) ==
    \E id \in Ids, fault \in faults :
        LET r == delete_log_failing(db, id, fault)
        IN /\ db' = r.db
           /\ resp' = [Answer("delete", r) EXCEPT !.id = id]
           /\ UNCHANGED <<now, issued, sessions>>

List ==
    \E q \in ListQueries, scan \in Scans(db) :
        LET r == get_logs(db, scan, q)
        IN /\ resp' = [op |-> "list", status |-> r.status, id |-> 0, req |-> q]
           /\ UNCHANGED <<db, now, issued, sessions>>

Export ==
    \E q \in ExportQueries, scan \in Scans(db) :
        LET r == export_logs_csv(db, scan, q)
        IN /\ resp' = [op |-> "export", status |-> r.status, id |-> 0, req |-> q]
           /\ UNCHANGED <<db, now, issued, sessions>>

Histogram ==
    \E q \in HistogramQueries :
        LET r == get_severity_histogram(db, q)
        IN /\ resp' = [op |-> "histogram", status |-> r.status, id |-> 0, req |-> q]
           /\ UNCHANGED <<db, now, issued, sessions>>

Search ==
    \E q \in SearchQueries, scan \in Scans(db) :
        LET r == search_logs(db, scan, q)
        IN /\ resp' = [op |-> "search", status |-> r.status, id |-> 0, req |-> q]
           /\ UNCHANGED <<db, now, issued, sessions>>

Populate ==
    /\ sessions = NoSessions
    /\ Create(QueryBodies, {NoFault})

Started(other) == IF other.pc = "idle" THEN db ELSE sessions.before

UpdateRead ==
    /\ sessions.update.pc = "idle"
    /\ \E id \in Ids, u \in RacePayloads :
          LET r == update_read(db, id, u)
          IN /\ sessions' = [sessions EXCEPT
                    !.update = [pc |-> r.pc, id |-> id, u |-> u,
                                loaded |-> r.loaded, status |-> r.status],
                    !.before = Started(sessions.delete)]
             /\ resp' = IF r.pc = "done"
                        THEN [op |-> "update", status |-> r.status, id |-> id,
                              req |-> NoRequest]
                        ELSE resp
    /\ UNCHANGED <<db, now, issued>>

UpdateCommit ==
    /\ sessions.update.pc = "loaded"
    /\ LET s == sessions.update
           r == update_commit(db, s.id, s.loaded, s.u)
       IN /\ db' = r.db
          /\ sessions' = [sessions EXCEPT !.update.pc = r.pc,
                                          !.update.status = r.status]
          /\ resp' = IF r.pc = "done"
                     THEN [op |-> "update", status |-> r.status, id |-> s.id,
                           req |-> NoRequest]
                     ELSE resp
    /\ UNCHANGED <<now, issued>>

UpdateRefresh ==
    /\ sessions.update.pc = "committed"
    /\ LET s == sessions.update
           r == update_refresh(db, s.id)
       IN /\ sessions' = [sessions EXCEPT !.update.pc = "done",
                                          !.update.status = r.status]
          /\ resp' = [op |-> "update", status |-> r.status, id |-> s.id,
                      req |-> NoRequest]
    /\ UNCHANGED <<db, now, issued>>

DeleteRead ==
    /\ sessions.delete.pc = "idle"
    /\ \E id \in Ids :
          LET r == delete_read(db, id)
          IN /\ sessions' = [sessions EXCEPT
                    !.delete = [NoSession EXCEPT !.pc = r.pc, !.id = id,
                                                !.loaded = r.loaded,
                                                !.status = r.status],
                    !.before = Started(sessions.update)]
             /\ resp' = IF r.pc = "done"
                        THEN [op |-> "delete", status |-> r.status, id |-> id,
                              req |-> NoRequest]
                        ELSE resp
    /\ UNCHANGED <<db, now, issued>>

DeleteCommit ==
    /\ sessions.delete.pc = "loaded"
    /\ LET s == sessions.delete
           r == delete_commit(db, s.id)
       IN /\ db' = r.db
          /\ sessions' = [sessions EXCEPT !.delete.pc = "done",
                                          !.delete.status = r.status]
          /\ resp' = [op |-> "delete", status |-> r.status, id |-> s.id,
                      req |-> NoRequest]
    /\ UNCHANGED <<now, issued>>

Next ==
    \/ Tick
    \/ Create(CrudBodies, {NoFault, "commit"})
    \/ Get({NoFault, "query"})
    \/ Update(CrudPayloads, {NoFault, "refresh"})
    \/ Delete({NoFault, "commit"})

Spec == Init /\ [][Next]_vars

\* The views over a store populated by create and delete requests, with
\* the clock already advanced.
InitQuery ==
    /\ db = <<>>
    /\ now = MaxTime
    /\ resp = [op |-> "none", status |-> 0, id |-> 0, req |-> NoRequest]
    /\ issued = {}
    /\ sessions = NoSessions

NextQuery ==
    \/ Create(QueryBodies, {NoFault})
    \/ Delete({NoFault})
    \/ List
    \/ Export
    \/ Histogram
    \/ Search

SpecQuery == InitQuery /\ [][NextQuery]_vars

\* An update and a delete whose store calls interleave, over a store
\* populated beforehand.
NextRace ==
    \/ Populate
    \/ UpdateRead
    \/ UpdateCommit
    \/ UpdateRefresh
    \/ DeleteRead
    \/ DeleteCommit

SpecRace == InitQuery /\ [][NextRace]_vars

(***************************************************************************)
(* Inputs the properties range over: each field at and around its bounds.  *)
(***************************************************************************)
BoundaryMessages ==
    {<<>>,
     Str(<<"a", "b">>),
     Str(<<"a", "b", "c">>),
     Str(<<" ", "a", "b", " ">>),
     Rep(" ", MESSAGE_MIN_TRIMMED),
     ShortMessage,
     LongMessage,
     Rep("a", MESSAGE_MAX_LENGTH + 1)}

BoundarySources ==
    {<<>>,
     Str(<<"a">>),
     Str(<<" ", "a", " ">>),
     ShortSource,
     LongSource,
     Rep("d", SOURCE_MAX_LENGTH + 1)}

BoundaryBodies ==
    {Body(m, "INFO", ShortSource, None) : m \in BoundaryMessages}
    \cup {Body(ShortMessage, "ERROR", src, Some(0)) : src \in BoundarySources}
    \cup {Body(ShortMessage, "DEBUG", ShortSource, ts) : ts \in Timestamps}
    \cup {Body(Str(<<"a", "b">>), "INFO", Str(<<"a">>), Some(MaxTime + 1)),
          Body(LongMessage, "CRITICAL", LongSource, Some(MaxTime + 1)),
          Body(ShortMessage, "TRACE", ShortSource, None)}

BoundaryPayloads ==
    {Payload(Unset, Unset, Unset, Unset)}
    \cup {Payload(Val(m), Unset, Unset, Unset) : m \in BoundaryMessages}
    \cup {Payload(Unset, Unset, Val(src), Unset) : src \in BoundarySources}
    \cup {Payload(Unset, sv, Unset, Unset) :
             sv \in {Null, Val("WARNING"), Val("TRACE")}}
    \cup {Payload(Unset, Unset, Unset, ts) :
             ts \in {Null, Val(0), Val(MaxTime + 1)}}
    \cup {Payload(Null, Unset, Unset, Unset),
          Payload(Unset, Unset, Null, Unset),
          Payload(Val(ShortMessage), Unset, Val(Str(<<"a">>)), Unset),
          Payload(Val(Str(<<"a", "b">>)), Val("WARNING"), Val(LongSource), Unset),
          Payload(Val(LongMessage), Val("WARNING"), Val(LongSource), Val(0)),
          Payload(Val(ShortMessage), Null, Unset, Unset)}

(***************************************************************************)
(* C1  Every successful create returns an id that no earlier create        *)
(* returned, also after deletions, and no update changes the ids of the    *)
(* stored records.                                                         *)
(***************************************************************************)
C1_IdNeverReused ==
    [][/\ (resp'.op = "create" /\ resp'.status = 201 /\ db' # db)
              => resp'.id \notin issued
       /\ resp'.op = "update" => DOMAIN db' = DOMAIN db]_vars

(***************************************************************************)
(* C2  Every stored record has a severity of the five levels, a message of *)
(* raw length at most 5000 and trimmed length at least 3, and a source of  *)
(* raw length at most 255 and trimmed length at least 2: in every          *)
(* reachable store, and in the store that any create or update request     *)
(* leaves behind.                                                          *)
(***************************************************************************)
ValidRecord(row) ==
    /\ row.severity \in {"DEBUG", "INFO", "WARNING", "ERROR", "CRITICAL"}
    /\ len(row.message) <= 5000
    /\ len(strip(row.message)) >= 3
    /\ len(row.source) <= 255
    /\ len(strip(row.source)) >= 2

ValidStore(store) == \A i \in DOMAIN store : ValidRecord(store[i])

C2_StoredRecordsValid ==
    /\ ValidStore(db)
    /\ \A log \in BoundaryBodies : ValidStore(create_log(db, now, log).db)
    /\ \A id \in Ids, u \in BoundaryPayloads : ValidStore(update_log(db, id, u).db)

C2_Witness ==
    /\ resp.op = "update"
    /\ resp.status = 200
    /\ \E i \in DOMAIN db :
          /\ len(db[i].message) = 5000
          /\ len(db[i].source) = 255
    /\ \E i \in DOMAIN db : len(strip(db[i].message)) = 3

(***************************************************************************)
(* C3  A create, update or delete that answers 400 or 404 leaves the set   *)
(* of stored records and every field of every record as it was; an update  *)
(* with one valid and one invalid field changes neither field.             *)
(***************************************************************************)
ClientError == {400, 404}

PartialPayload == Payload(Val(ShortMessage), Unset, Val(Str(<<"a">>)), Unset)

C3_FailedWriteLeavesStore ==
    /\ \A log \in BoundaryBodies :
          LET r == create_log(db, now, log)
          IN r.status \in ClientError => r.db = db
    /\ \A id \in Ids, u \in BoundaryPayloads :
          LET r == update_log(db, id, u)
          IN r.status \in ClientError => r.db = db
    /\ \A id \in Ids :
          LET r == delete_log(db, id)
          IN r.status \in ClientError => r.db = db
    /\ \A id \in DOMAIN db :
          LET r == update_log(db, id, PartialPayload)
          IN r.status = 400 /\ r.db = db

C3_Witness ==
    /\ resp.op = "update"
    /\ resp.status = 400
    /\ \E i \in DOMAIN db : db[i].message # ShortMessage

(***************************************************************************)
(* C4  After a delete of an existing record succeeds, get, update (with    *)
(* any payload the schema accepts) and a second delete of that id answer   *)
(* 404, and the record is in no list, export or histogram result.          *)
(***************************************************************************)
AllRows(p, size) == ListRequest(NoFilters, p, size, "timestamp", "desc")

HistogramQuery == [start_date |-> None, end_date |-> None, source |-> None]

HistogramTotal(store) ==
    LET h == get_severity_histogram(store, HistogramQuery).body.histogram
        counted == [k \in 1..Len(h) |-> h[k].count]
    IN counted[1] + counted[2] + counted[3] + counted[4] + counted[5]

Gone(store, id) ==
    /\ id \notin DOMAIN store
    /\ get_log(store, id).status = 404
    /\ \A u \in BoundaryPayloads :
          LogUpdate(u) => update_log(store, id, u).status = 404
    /\ delete_log(store, id).status = 404
    /\ \A scan \in Scans(store), p \in 1..(MaxLogs + 1) :
          LET items == get_logs(store, scan, AllRows(p, 1)).body.items
          IN \A k \in 1..Len(items) : items[k].id # id
    /\ \A scan \in Scans(store) :
          LET rows == export_logs_csv(store, scan, NoFilters).body.rows
          IN \A k \in 1..Len(rows) : rows[k][1] # id

C5_CreateGetRoundTrip ==
    \A log \in BoundaryBodies :
        LET r == create_log(db, now, log)
            g == get_log(r.db, r.body.id)
        IN r.status = 201 =>
              /\ g.status = 200
              /\ g.body.id = r.body.id
              /\ g.body.message = log.message
              /\ g.body.severity = log.severity
              /\ g.body.source = log.source
              /\ g.body.timestamp =
                    (IF log.timestamp.none THEN now ELSE log.timestamp.v)
              /\ g.body = r.body

C5_Witness ==
    /\ resp.op = "create"
    /\ resp.status = 201
    /\ now > 0
    /\ get_log(db, resp.id).status = 200
    /\ get_log(db, resp.id).body.message = ShortMessage
    /\ strip(ShortMessage) # ShortMessage
    /\ get_log(db, resp.id).body.timestamp = now

(***************************************************************************)
(* C6  Create answers 400, and stores nothing, exactly when the message    *)
(* has trimmed length below 3 or raw length above 5000, or the source has  *)
(* trimmed length below 2 or raw length above 255, or a supplied timestamp *)
(* is later than the current time; otherwise it answers 201.               *)
(***************************************************************************)
Refused(log, clock) ==
    \/ len(strip(log.message)) < 3
    \/ len(log.message) > 5000
    \/ len(strip(log.source)) < 2
    \/ len(log.source) > 255
    \/ (~log.timestamp.none /\ log.timestamp.v > clock)

C6_CreateRefusesExactly ==
    \A log \in BoundaryBodies :
        log.severity \in SeverityLevel =>
            LET r == create_log(db, now, log)
            IN IF Refused(log, now)
               THEN r.status = 400 /\ r.db = db
               ELSE r.status = 201

(***************************************************************************)
(* Requests the properties of the list view range over.                    *)
(***************************************************************************)
PageFilters ==
    {NoFilters,
     Filters(Some("INFO"), None, None, None, None),
     Filters(None, Some(OtherSource), Some(0), Some(MaxTime), None)}

Pages == 1..(MaxLogs + 2)

PageSizes == (1..(MaxLogs + 1)) \cup {PAGE_SIZE_MAX}

ItemIds(r) == [k \in 1..Len(r.body.items) |-> r.body.items[k].id]

(***************************************************************************)
(* C7  For every list request with page >= 1 and 1 <= page_size <= 1000    *)
(* the total is the number of records that pass the filters, whatever the  *)
(* page and the page size, total_pages is ceil(total / page_size), and the *)
(* page holds min(page_size, max(0, total - (page-1)*page_size)) items: a  *)
(* page past the last one is an empty list, not an error.                  *)
(***************************************************************************)
Ceiling(n, size) ==
    CHOOSE k \in 0..n : k * size >= n /\ (k > 0 => (k - 1) * size < n)

ExpectedItems(n, page, size) ==
    LET rest == IF n - (page - 1) * size > 0 THEN n - (page - 1) * size ELSE 0
    IN IF size < rest THEN size ELSE rest

C7_PaginationArithmetic ==
    \A scan \in Scans(db), f \in PageFilters, p \in Pages, size \in PageSizes :
        LET r == get_logs(db, scan, ListRequest(f, p, size, "timestamp", "desc"))
            n == Cardinality({i \in DOMAIN db : list_filter(db[i], f)})
        IN /\ r.status = 200
           /\ r.body.total = n
           /\ r.body.total_pages = Ceiling(n, size)
           /\ Len(r.body.items) = ExpectedItems(n, p, size)

C7_Witness ==
    /\ resp.op = "list"
    /\ resp.status = 200
    /\ resp.req.page = MaxLogs + 1
    /\ Cardinality(DOMAIN db) = MaxLogs
    /\ \A scan \in Scans(db) :
          /\ get_logs(db, scan, resp.req).body.items = <<>>
          /\ get_logs(db, scan, resp.req).body.total = MaxLogs
          /\ get_logs(db, scan, resp.req).body.total_pages = MaxLogs

(***************************************************************************)
(* C8  For a static store and fixed filters, sort_by, sort_order and       *)
(* page_size, the pages 1..total_pages together hold every matching id     *)
(* exactly once, also when records share the value of the sort key.        *)
(***************************************************************************)
SortNames == {"timestamp", "source", "unknown"}

SortOrders == {"asc", "desc"}

C8_PagesPartition ==
    \A scan \in Scans(db), f \in PageFilters, sb \in SortNames,
       so \in SortOrders, size \in 1..MaxLogs :
        LET first == get_logs(db, scan, ListRequest(f, 1, size, sb, so))
            pages == [p \in 1..first.body.total_pages |->
                         ItemIds(get_logs(db, scan, ListRequest(f, p, size, sb, so)))]
            places == {pk \in (DOMAIN pages) \X (1..size) :
                          pk[2] <= Len(pages[pk[1]])}
        IN /\ first.status = 200
           /\ \A a, b \in places : pages[a[1]][a[2]] = pages[b[1]][b[2]] => a = b
           /\ {pages[pk[1]][pk[2]] : pk \in places} = matching(db, f)

C8_Witness ==
    /\ resp.op = "list"
    /\ resp.status = 200
    /\ resp.req.page = 2
    /\ resp.req.page_size = 1
    /\ \E i, j \in DOMAIN db : i # j /\ db[i].timestamp = db[j].timestamp
    /\ \A scan \in Scans(db) :
          /\ Len(get_logs(db, scan, resp.req).body.items) = 1
          /\ ItemIds(get_logs(db, scan, resp.req))
                # ItemIds(get_logs(db, scan, [resp.req EXCEPT !.page = 1]))

(***************************************************************************)
(* C9  The list view returns exactly the records that satisfy every        *)
(* supplied filter: severity and source equal to the given ones, timestamp *)
(* within the inclusive bounds, message containing the search string; a    *)
(* filter that is not supplied excludes nothing.                           *)
(***************************************************************************)
\* The message contains the search string, letter case aside.
Contains(message, search) ==
    LET t == chars(message)
        p == chars(search)
    IN \E k \in 0..(Len(t) - Len(p)) :
          \A i \in 1..Len(p) : lower(t[k + i]) = lower(p[i])

Satisfies(row, f) ==
    /\ ~f.severity.none => row.severity = f.severity.v
    /\ ~f.source.none => row.source = f.source.v
    /\ ~f.start_date.none => row.timestamp >= f.start_date.v
    /\ ~f.end_date.none => row.timestamp <= f.end_date.v
    /\ ~f.search.none => Contains(row.message, f.search.v)

Searches ==
    {Str(<<"b">>), Str(<<"B", "c">>), Str(<<"a", "b", "c">>),
     Str(<<"c", "a">>), Str(<<"_">>), Str(<<"%">>), Str(<<"a", "_", "c">>)}

FilterSamples ==
    PageFilters
    \cup {Filters(None, None, None, None, Some(x)) : x \in Searches}
    \cup {Filters(None, Some(ShortSource), None, None, None),
          Filters(None, Some(<<>>), None, None, None),
          Filters(Some("ERROR"), Some(OtherSource), Some(MaxTime), None,
                  Some(Str(<<"a">>))),
          Filters(None, None, Some(MaxTime), Some(0), None)}

C9_ListReturnsMatching ==
    \A scan \in Scans(db), f \in FilterSamples :
        LET r == get_logs(db, scan,
                          ListRequest(f, 1, PAGE_SIZE_MAX, "timestamp", "desc"))
        IN /\ r.status = 200
           /\ {r.body.items[k].id : k \in 1..Len(r.body.items)}
                 = {i \in DOMAIN db : Satisfies(db[i], f)}

(***************************************************************************)
(* C10  The search filter of the list and export views matches a record    *)
(* if and only if its message contains the search string as a contiguous   *)
(* substring, letter case aside, for every character of the search string, *)
(* "%" and "_" included.                                                   *)
(***************************************************************************)
C10_SearchIsSubstring ==
    \A scan \in Scans(db), x \in Searches :
        LET f == Filters(None, None, None, None, Some(x))
            listed == get_logs(db, scan,
                          ListRequest(f, 1, PAGE_SIZE_MAX, "timestamp", "desc"))
            exported == export_logs_csv(db, scan, f)
            found == {i \in DOMAIN db : Contains(db[i].message, x)}
        IN /\ {listed.body.items[k].id : k \in 1..Len(listed.body.items)} = found
           /\ {exported.body.rows[k][1] : k \in 1..Len(exported.body.rows)} = found

(***************************************************************************)
(* Requests the properties of the histogram range over.                    *)
(***************************************************************************)
SourceSamples == {None, Some(<<>>), Some(ShortSource), Some(OtherSource)}

DateSamples == {None} \cup {Some(t) : t \in 0..(MaxTime + 1)}

HistogramSamples ==
    {HistogramFilters(start, end, src) :
        start \in DateSamples, end \in DateSamples, src \in SourceSamples}

(***************************************************************************)
(* C11  In every store, the empty one included, and for every combination  *)
(* of histogram filters, the histogram has exactly five entries, one per   *)
(* severity in the order DEBUG, INFO, WARNING, ERROR, CRITICAL, and the    *)
(* entry of a severity without a matching record has count 0.              *)
(***************************************************************************)
C11_HistogramFiveEntries ==
    \A q \in HistogramSamples :
        LET r == get_severity_histogram(db, q)
            h == r.body.histogram
        IN /\ r.status = 200
           /\ Len(h) = 5
           /\ <<h[1].severity, h[2].severity, h[3].severity, h[4].severity,
                h[5].severity>>
                 = <<"DEBUG", "INFO", "WARNING", "ERROR", "CRITICAL">>
           /\ \A k \in 1..5 :
                 (~\E i \in DOMAIN db :
                       /\ db[i].severity = h[k].severity
                       /\ histogram_filter(db[i], q))
                    => h[k].count = 0

C11_Witness ==
    /\ resp.op = "histogram"
    /\ resp.status = 200
    /\ db = <<>>
    /\ Len(get_severity_histogram(db, resp.req).body.histogram) = 5

(***************************************************************************)
(* C12  For every store and every start_date, end_date and source, the     *)
(* histogram count of each severity equals the total of the list view for  *)
(* the same start_date, end_date and source with that severity and no      *)
(* search, and the five counts sum to the list total for those filters     *)
(* without a severity filter.                                              *)
(***************************************************************************)
ListTotal(store, scan, sv, q) ==
    get_logs(store, scan,
             ListRequest(Filters(sv, q.source, q.start_date, q.end_date, None),
                         1, 1, "timestamp", "desc")).body.total

HistogramListSamples ==
    {HistogramFilters(start, end, src) :
        start \in {None, Some(MaxTime)},
        end \in {None, Some(0), Some(MaxTime)},
        src \in {None, Some(<<>>), Some(ShortSource)}}

C12_HistogramMatchesList ==
    \A q \in HistogramListSamples, scan \in Scans(db) :
        LET h == get_severity_histogram(db, q).body.histogram
        IN /\ \A k \in 1..Len(h) :
                 h[k].count = ListTotal(db, scan, Some(h[k].severity), q)
           /\ h[1].count + h[2].count + h[3].count + h[4].count + h[5].count
                 = ListTotal(db, scan, None, q)

C12_Witness ==
    /\ resp.op = "histogram"
    /\ ~resp.req.start_date.none
    /\ truthy(resp.req.source)
    /\ Cardinality(DOMAIN db) = MaxLogs
    /\ \E k \in 1..5 :
          LET e == get_severity_histogram(db, resp.req).body.histogram[k]
          IN /\ e.count = 1
             /\ \A scan \in Scans(db) :
                   ListTotal(db, scan, Some(e.severity), resp.req) = 1

(***************************************************************************)
(* C13  For every store and every set of filters, the CSV export is the    *)
(* header ID, Timestamp, Severity, Source, Message followed by exactly one *)
(* row per record that the list view counts for the same filters, none     *)
(* missing and none besides, the rows in non-increasing order of           *)
(* timestamp.                                                              *)
(***************************************************************************)
C13_ExportMatchesList ==
    \A scan \in Scans(db), f \in FilterSamples :
        LET e == export_logs_csv(db, scan, f)
            l == get_logs(db, scan,
                          ListRequest(f, 1, PAGE_SIZE_MAX, "timestamp", "desc"))
            rows == e.body.rows
        IN /\ e.status = 200
           /\ e.body.header = <<"ID", "Timestamp", "Severity", "Source", "Message">>
           /\ Len(rows) = l.body.total
           /\ {rows[k][1] : k \in 1..Len(rows)}
                 = {l.body.items[k].id : k \in 1..Len(l.body.items)}
           /\ \A j, k \in 1..Len(rows) : rows[j][1] = rows[k][1] => j = k
           /\ \A k \in 1..Len(rows) :
                 LET row == db[rows[k][1]]
                 IN rows[k] = <<rows[k][1], row.timestamp, row.severity,
                                row.source, row.message>>
           /\ \A j, k \in 1..Len(rows) : j < k => rows[j][2] >= rows[k][2]

C13_Witness ==
    /\ resp.op = "export"
    /\ resp.status = 200
    /\ ~resp.req.search.none
    /\ Cardinality(DOMAIN db) = MaxLogs
    /\ \A scan \in Scans(db) :
          /\ Len(export_logs_csv(db, scan, resp.req).body.rows) = 1
          /\ Len(export_logs_csv(db, scan, NoFilters).body.rows) = MaxLogs

(***************************************************************************)
(* C14  For every store, every set of the filters severity, source,        *)
(* start_date, end_date and every group_by of severity, source, date,      *)
(* hour: the count of each bucket is the number of matching records that   *)
(* have the bucket's key, total_count is the number of matching records,   *)
(* the same for every group_by, and the counts of the buckets sum to       *)
(* total_count.                                                            *)
(***************************************************************************)
Matches(row, f) ==
    /\ ~f.severity.none => row.severity = f.severity.v
    /\ ~f.source.none => row.source = f.source.v
    /\ ~f.start_date.none => row.timestamp >= f.start_date.v
    /\ ~f.end_date.none => row.timestamp <= f.end_date.v

KeyOf(group_by, row) ==
    CASE group_by = "severity" -> row.severity
      [] group_by = "source" -> row.source
      [] group_by = "date" -> <<row.timestamp \div 2>>
      [] group_by = "hour" -> <<row.timestamp \div 2, 12 * (row.timestamp % 2)>>

BucketKey(group_by, entry) ==
    CASE group_by = "severity" -> entry.severity.v
      [] group_by = "source" -> entry.source.v
      [] group_by = "date" -> entry.date.v
      [] group_by = "hour" -> entry.date.v

RECURSIVE SumCounts(_)
SumCounts(entries) ==
    IF entries = <<>> THEN 0
    ELSE entries[1].count + SumCounts(Tail(entries))

AggregationOf(f, scan, group_by) ==
    LET r == search_logs(db, scan,
                 SearchRequest(f.severity, f.source, f.start_date, f.end_date,
                               group_by))
        found == {i \in DOMAIN db : Matches(db[i], f)}
    IN /\ r.status = 200
       /\ r.body.total_count = Cardinality(found)
       /\ \A k \in 1..Len(r.body.aggregations) :
             LET e == r.body.aggregations[k]
             IN e.count = Cardinality({i \in found :
                              KeyOf(group_by, db[i]) = BucketKey(group_by, e)})
       /\ SumCounts(r.body.aggregations) = r.body.total_count

SearchSamples ==
    {Filters(sv, src, start, end, None) :
        sv \in {None, Some("INFO")},
        src \in {None, Some(<<>>), Some(OtherSource)},
        start \in {None, Some(MaxTime)},
        end \in {None, Some(0)}}

C14_AggregationCounts ==
    \A f \in SearchSamples, scan \in Scans(db), g \in GroupBy :
        AggregationOf(f, scan, g)

(***************************************************************************)
(* C15  A successful update of an existing record sets each field present  *)
(* in the payload to the supplied value, leaves each absent field and the  *)
(* id as stored, leaves every other record unchanged, and a get of the id  *)
(* that follows returns the updated values.                                *)
(***************************************************************************)
C15_UpdateFrame ==
    \A id \in Ids, u \in BoundaryPayloads :
        LET r == update_log(db, id, u)
            g == get_log(r.db, id)
        IN r.status = 200 =>
              /\ id \in DOMAIN db
              /\ DOMAIN r.db = DOMAIN db
              /\ \A f \in {"message", "severity", "source", "timestamp"} :
                    /\ u[f].k = "val" => r.db[id][f] = u[f].v
                    /\ u[f].k = "unset" => r.db[id][f] = db[id][f]
                    /\ u[f].k \in {"val", "unset"}
              /\ \A i \in DOMAIN db \ {id} : r.db[i] = db[i]
              /\ g.status = 200
              /\ g.body.id = id
              /\ \A f \in {"message", "severity", "source", "timestamp"} :
                    g.body[f] = r.db[id][f]
              /\ g.body = r.body

C15_Witness ==
    /\ resp.op = "update"
    /\ resp.status = 200
    /\ now > 0
    /\ resp.id \in DOMAIN db
    /\ db[resp.id].timestamp = 0
    /\ db[resp.id].message = ShortMessage
    /\ \E i \in DOMAIN db : i # resp.id /\ db[i].timestamp = now

(***************************************************************************)
(* C16  Update of an existing record answers 400 when a message in the     *)
(* payload has trimmed length below 3 or raw length above 5000, when a     *)
(* source in the payload has trimmed length below 2 or raw length above    *)
(* 255, and when a timestamp in the payload is later than the current      *)
(* time; update of an absent id answers 404 whatever the payload.          *)
(***************************************************************************)
RefusedField(u, clock) ==
    \/ u.message.k = "val" /\ len(strip(u.message.v)) < 3
    \/ u.message.k = "val" /\ len(u.message.v) > 5000
    \/ u.source.k = "val" /\ len(strip(u.source.v)) < 2
    \/ u.source.k = "val" /\ len(u.source.v) > 255
    \/ u.timestamp.k = "val" /\ u.timestamp.v > clock

C16_UpdateRefuses ==
    \A id \in Ids, u \in BoundaryPayloads :
        LET r == update_log(db, id, u)
        IN /\ id \notin DOMAIN db => r.status = 404
           /\ (id \in DOMAIN db /\ RefusedField(u, now)) => r.status = 400

(***************************************************************************)
(* C17  When a store call fails during create, get, update, delete, list,  *)
(* search, histogram or export, the request answers 500, returns no        *)
(* partial result, and leaves the store with the content it had before     *)
(* the request.                                                            *)
(***************************************************************************)
StoreErrorAnswer(r, empty) ==
    /\ r.status = 500
    /\ r.body = empty
    /\ r.db = db

CrudFailures(fault) ==
    /\ \A log \in BoundaryBodies :
          (create_log(db, now, log).status = 201
              /\ fault \in {"commit", "refresh"})
             => StoreErrorAnswer(create_log_failing(db, now, log, fault), NoBody)
    /\ \A id \in Ids :
          fault = "query"
             => StoreErrorAnswer(get_log_failing(db, id, fault), NoBody)
    /\ \A id \in Ids, u \in BoundaryPayloads :
          (LogUpdate(u)
              /\ \/ fault = "query"
                 \/ update_log(db, id, u).status = 200)
             => StoreErrorAnswer(update_log_failing(db, id, u, fault), NoBody)
    /\ \A id \in Ids :
          (fault = "query"
              \/ (delete_log(db, id).status = 200 /\ fault = "commit"))
             => StoreErrorAnswer(delete_log_failing(db, id, fault), NoBody)

ViewFailures(scan) ==
    /\ \A f \in PageFilters :
          StoreErrorAnswer(
              get_logs_failing(db, scan,
                  ListRequest(f, 1, PAGE_SIZE_MAX, "timestamp", "desc"), "query"),
              NoList)
    /\ \A f \in PageFilters, g \in GroupBy :
          StoreErrorAnswer(
              search_logs_failing(db, scan,
                  SearchRequest(f.severity, f.source, f.start_date, f.end_date, g),
                  "query"),
              NoAggregation)
    /\ \A q \in HistogramQueries :
          LET r == get_severity_histogram_failing(db, q, "query")
          IN r.status = 500 /\ r.body.histogram = <<>> /\ r.db = db
    /\ \A f \in PageFilters :
          StoreErrorAnswer(export_logs_csv_failing(db, scan, f, "query"),
                           [header |-> <<>>, rows |-> <<>>])

C17_StoreFailure ==
    /\ \A fault \in StoreCalls : CrudFailures(fault)
    /\ \A scan \in Scans(db) : ViewFailures(scan)

(***************************************************************************)
(* C18  The list view sorts by the named field when sort_by is timestamp,  *)
(* severity or source, and for every other sort_by string (id, message,    *)
(* to_dict, metadata, an unknown name) it sorts by timestamp and answers   *)
(* 200; the order is ascending when sort_order is asc and descending       *)
(* otherwise.                                                              *)
(***************************************************************************)
SortFields == {"timestamp", "severity", "source"}

SortBySamples == SortFields \cup {"id", "message", "to_dict", "metadata", "unknown"}

SortOrderSamples == {"asc", "desc", "up"}

\* The ids are in the order of the field: no id stands before one that
\* sorts strictly before it.
InOrder(ids, field, ascending) ==
    \A j, k \in 1..Len(ids) :
        j < k => ~precedes(field, ascending, db, ids[k], ids[j])

SortedAsNamed(scan, names) ==
    \A sb \in names, so \in SortOrderSamples :
        LET r == get_logs(db, scan,
                          ListRequest(NoFilters, 1, PAGE_SIZE_MAX, sb, so))
        IN /\ r.status = 200
           /\ {r.body.items[k].id : k \in 1..Len(r.body.items)} = DOMAIN db
           /\ InOrder(ItemIds(r),
                      IF sb \in SortFields THEN sb ELSE "timestamp",
                      so = "asc")

C18_SortByFallback == \A scan \in Scans(db) : SortedAsNamed(scan, SortBySamples)

(***************************************************************************)
(* C19  A create input that violates several rules is answered 400 with    *)
(* the message of the first violated rule in the order: message too short, *)
(* message too long, source too short, source too long, timestamp in the   *)
(* future; the five messages are distinct; update reports the first        *)
(* violation in the same order over the fields of its payload.             *)
(***************************************************************************)
RuleMessage ==
    <<"Message must be at least 3 characters",
      "Message must not exceed 5000 characters",
      "Source must be at least 2 characters",
      "Source must not exceed 255 characters",
      "Timestamp cannot be in the future">>

\* The rules that optional values of the three fields violate.
Violated(message, source, timestamp, clock) ==
    {k \in 1..5 :
        \/ k = 1 /\ ~message.none /\ len(strip(message.v)) < 3
        \/ k = 2 /\ ~message.none /\ len(message.v) > 5000
        \/ k = 3 /\ ~source.none /\ len(strip(source.v)) < 2
        \/ k = 4 /\ ~source.none /\ len(source.v) > 255
        \/ k = 5 /\ ~timestamp.none /\ timestamp.v > clock}

First(rules) == CHOOSE k \in rules : \A j \in rules : k <= j

Given(field) == IF field.k = "val" THEN Some(field.v) ELSE None

SeveralBodies ==
    {Body(Str(<<"a", "b">>), "INFO", Str(<<"a">>), Some(MaxTime + 1)),
     Body(ShortMessage, "INFO", Str(<<"a">>), Some(MaxTime + 1)),
     Body(Rep(" ", MESSAGE_MAX_LENGTH + 1), "INFO", ShortSource, None),
     Body(Rep("a", MESSAGE_MAX_LENGTH + 1), "INFO", Str(<<"a">>), None),
     Body(ShortMessage, "INFO", Rep("d", SOURCE_MAX_LENGTH + 1), Some(MaxTime + 1))}

SeveralPayloads ==
    {Payload(Val(Str(<<"a", "b">>)), Unset, Val(Str(<<"a">>)), Val(MaxTime + 1)),
     Payload(Unset, Unset, Val(Str(<<"a">>)), Val(MaxTime + 1)),
     Payload(Val(Rep("a", MESSAGE_MAX_LENGTH + 1)), Unset, Val(Str(<<"a">>)), Unset),
     Payload(Val(ShortMessage), Val("ERROR"), Val(Rep("d", SOURCE_MAX_LENGTH + 1)),
             Val(MaxTime + 1)),
     Payload(Val(ShortMessage), Unset, Unset, Val(MaxTime + 1))}

CreateReportsFirst(bodies) ==
    \A log \in bodies :
        LET rules == Violated(Some(log.message), Some(log.source),
                              log.timestamp, now)
            r == create_log(db, now, log)
        IN (log.severity \in SeverityLevel /\ rules # {})
              => r.status = 400 /\ r.detail = RuleMessage[First(rules)]

UpdateReportsFirst(payloads) ==
    \A id \in DOMAIN db, u \in payloads :
        LET rules == Violated(Given(u.message), Given(u.source),
                              Given(u.timestamp), now)
            r == update_log(db, id, u)
        IN ((\A f \in UpdateFields : u[f].k # "null")
               /\ (u.severity.k = "val" => u.severity.v \in SeverityLevel)
               /\ rules # {})
              => r.status = 400 /\ r.detail = RuleMessage[First(rules)]

C19_FirstViolationReported ==
    /\ \A j, k \in 1..5 : RuleMessage[j] = RuleMessage[k] => j = k
    /\ CreateReportsFirst(BoundaryBodies \cup SeveralBodies)
    /\ UpdateReportsFirst(BoundaryPayloads \cup SeveralPayloads)

(***************************************************************************)
(* C20  When an update and a delete of the same existing record run        *)
(* concurrently, in every interleaving of their read and commit steps: no  *)
(* other record is changed; once the delete has committed the record is    *)
(* absent and stays absent (an update that read the record earlier does    *)
(* not re-create it); an update answers 200 only for a record that is      *)
(* there; and the final store is the one of a serial execution of the two. *)
(***************************************************************************)
SameRecord ==
    /\ sessions.update.pc # "idle"
    /\ sessions.delete.pc # "idle"
    /\ sessions.update.id = sessions.delete.id
    /\ sessions.update.id \in DOMAIN sessions.before

SerialStores(store, id, u) ==
    {delete_log(update_log(store, id, u).db, id).db,
     update_log(delete_log(store, id).db, id, u).db}

C20_UpdateDeleteRace ==
    /\ SameRecord =>
          LET id == sessions.update.id
              before == sessions.before
          IN /\ \A i \in DOMAIN before \ {id} :
                    i \in DOMAIN db /\ db[i] = before[i]
             /\ DOMAIN db \subseteq DOMAIN before
             /\ sessions.delete.pc = "done" =>
                    sessions.delete.status = 200 /\ id \notin DOMAIN db
             /\ (sessions.delete.pc = "done" /\ sessions.update.pc = "done") =>
                    db \in SerialStores(before, id, sessions.update.u)
    /\ (resp.op = "update" /\ resp.status = 200) => resp.id \in DOMAIN db

C20_Witness ==
    /\ SameRecord
    /\ sessions.update.pc = "done"
    /\ sessions.delete.pc = "done"
    /\ sessions.update.status = 500
    /\ sessions.delete.status = 200
    /\ sessions.update.u.timestamp = Val(0)
    /\ sessions.update.loaded.timestamp # 0
    /\ Cardinality(DOMAIN sessions.before) = MaxLogs
    /\ Cardinality(DOMAIN db) = MaxLogs - 1

(***************************************************************************)
(* C21  For an existing record and a store that does not fail, update      *)
(* answers 200 or 400 for every payload the request schema accepts, never  *)
(* an internal error: the empty payload answers 200 and leaves the record  *)
(* unchanged; a payload that sets message, source, severity or timestamp   *)
(* to null is answered 400 or leaves that field as it was; and no null is  *)
(* stored in a field.                                                      *)
(***************************************************************************)
EmptyPayload == Payload(Unset, Unset, Unset, Unset)

NullPayloads ==
    {Payload(Null, Null, Null, Null),
     Payload(Val(ShortMessage), Unset, Null, Unset),
     Payload(Unset, Val("ERROR"), Unset, Null)}

\* Every field of every row holds a value of its column's type.
NoNullStored(store) ==
    \A i \in DOMAIN store :
        /\ store[i].severity \in SeverityLevel
        /\ store[i].timestamp \in Nat
        /\ Len(store[i].message) >= 1
        /\ Len(store[i].source) >= 1

C21_UpdateNeverInternalError ==
    \A id \in DOMAIN db, u \in BoundaryPayloads \cup NullPayloads :
        LET r == update_log(db, id, u)
        IN LogUpdate(u) =>
              /\ r.status \in {200, 400}
              /\ u = EmptyPayload => (r.status = 200 /\ r.db = db)
              /\ \A f \in UpdateFields :
                    u[f].k = "null" =>
                       (r.status = 400 \/ r.db[id][f] = db[id][f])
              /\ NoNullStored(r.db)

====
